---- MODULE Spec2Model ----
(***************************************************************************)
(* State-machine model of the image cropper widgets of                     *)
(* react-image-cropper:                                                    *)
(*   - ImageCropperWithDiv  (src/unnamed/part_002; its earlier revision is *)
(*     src/src/ImageCropperWithDiv.tsx lines 24-284): React state, CSS     *)
(*     preview, export through an off-screen canvas;                       *)
(*   - ImageCropper (src/src/ImageCropperWithDiv.tsx lines 308-536): refs  *)
(*     and a canvas that is redrawn on every change;                       *)
(*   - the first ImageCropper (src/unnamed/part_000).                      *)
(*                                                                         *)
(* Numbers.  JavaScript numbers are modelled exactly: zoom is held in     *)
(* hundredths (1.00 is 100, 0.25 is 25), rotation in degrees, pan of the   *)
(* div cropper in CSS pixels as a fraction in lowest terms (a drag divides *)
(* by the zoom), pan of the second canvas cropper in whole CSS pixels, pan *)
(* of the first canvas cropper in hundredths.  Products and quotients of   *)
(* the drawing are kept as numerator/denominator pairs.                    *)
(***************************************************************************)
EXTENDS Integers, Sequences, FiniteSets, TLC

VARIABLES
  component,  \* which widget the App mounts
  props,      \* the props the widget was mounted with
  caller,     \* the values the caller holds behind zoom/rotation/imageSrc/pan props
  state,      \* the widget's own React state cells (imageState[0], zoomState[0], ...)
  view,       \* the values bound by the last render (what handlers and JSX close over)
  dirty,      \* TRUE when a state update is waiting for its render
  reads,      \* FileReader reads in flight (the file of each)
  exports,    \* export image loads in flight (what each onload closes over)
  sink,       \* outputs produced so far: callbacks, downloads, loads completed
  refs,       \* the canvas croppers' refs (imageSrc, zoom, rotation, pan .current)
  loads,      \* the canvas croppers' redraw image loads in flight, per image source
  canvas,     \* what the canvas croppers' canvas shows
  last,       \* the last event handled, with its inputs and its output
  imageDimensions, \* the div cropper's imageDimensions state cell
  probes,     \* dimension-probing image loads in flight, per source
  fileInput,  \* the file the file input holds (e.target.files?.[0])
  mounted,    \* TRUE while the widget is in the page (its element refs are set)
  events      \* how many user events the run has handled

vars == <<component, props, caller, state, view, dirty, reads, exports, sink,
          refs, loads, canvas, last, events, imageDimensions, probes, fileInput,
          mounted>>

----------------------------------------------------------------------------
(* Bounds of the model *)

\* user events (input changes, gestures, submits) of one run
MaxEvents == 3

----------------------------------------------------------------------------
(* Program constants *)

\* Math.max(0.25, value), in hundredths
MinZoom == 25
\* React.useState<number>(1), in hundredths
DefaultZoom == 100
\* React.useState<number>(0)
DefaultRotation == 0

DefaultPan == [x |-> [num |-> 0, den |-> 1], y |-> [num |-> 0, den |-> 1]]

\* React.useState<string>("")
NoImage == ""
\* React.useState({ width: 0, height: 0 })
NoDimensions == [width |-> 0, height |-> 0]

DownloadName == "cropped-image.png"
\* the canvas size when neither resolutionPx nor the container gives one
FallbackSize == 512

----------------------------------------------------------------------------
(* Inputs *)

Div == "ImageCropperWithDiv"
Canvas == "ImageCropper"
First == "ImageCropperFirst"

Files == {"A", "B"}
NoFile == "none"

\* The data URL a FileReader yields for a file: a non-empty string naming it.
DataUrl(file) == "data:" \o file

\* The natural size of the image a data URL decodes to.
NaturalSize(src) ==
  IF src = DataUrl("A") THEN [width |-> 40, height |-> 20]
  ELSE [width |-> 30, height |-> 60]

Sources == {NoImage} \cup {DataUrl(file) : file \in Files}

\* Numbers that a division produced: fractions in lowest terms, den > 0.
Gcd(a, b) ==
  LET common == {g \in 1..(a + b) : a % g = 0 /\ b % g = 0}
  IN CHOOSE g \in common : \A h \in common : h <= g

\* n / d, for d # 0
Ratio(n, d) ==
  LET g == Gcd(IF n < 0 THEN -n ELSE n, IF d < 0 THEN -d ELSE d)
      sign == IF d < 0 THEN -1 ELSE 1
  IN [num |-> (sign * n) \div g, den |-> (sign * d) \div g]

Whole(n) == [num |-> n, den |-> 1]

Plus(a, b) == Ratio(a.num * b.den + b.num * a.den, a.den * b.den)

Max(a, b) == IF a >= b THEN a ELSE b
Min(a, b) == IF a <= b THEN a ELSE b

\* The measured size of the preview container (useMeasure), in CSS pixels.
Container == [width |-> 10, height |-> 10]

SliderZooms == {50, 100}
SliderRotations == {-180, 90}
SliderPanXs == {20}
SliderPanYs == {-20}
DragDeltas == {<<10, -10>>}
PinchDeltas == {<<-100, 0>>, <<75, 30>>}
Resolutions == {0, 10}
\* use-gesture offsets: the accumulated drag movement, the pinch scale and angle
DragOffsets == {<<30, -10>>}
PinchOffsets == {<<10, 0>>, <<150, 30>>}
\* deltaY of a wheel event
WheelDeltas == {-50, 200}

----------------------------------------------------------------------------
(* ImageCropperWithDiv: state selection and setters *)

InitialState ==
  [imageSrc |-> NoImage, zoom |-> DefaultZoom, rotation |-> DefaultRotation,
   pan |-> DefaultPan]

\* The refs of a canvas cropper: pan in whole pixels (hundredths, in the first)
InitialRefs == [InitialState EXCEPT !.pan = [x |-> 0, y |-> 0]]

\* props.x ?? xState[0]: the caller's value when the prop is supplied
Selected(p, st, cl) ==
  [imageSrc |-> IF p.imageSrc THEN cl.imageSrc ELSE st.imageSrc,
   zoom     |-> IF p.zoom THEN cl.zoom ELSE st.zoom,
   rotation |-> IF p.rotation THEN cl.rotation ELSE st.rotation,
   pan      |-> IF p.pan THEN cl.pan ELSE st.pan]

\* The cells a handler writes: the widget's own state and the caller's.
Cells == [state |-> state, caller |-> caller]

\* props.setImageSrc ?? imageState[1]
setImageSrc(c, v) ==
  IF props.setImageSrc THEN [c EXCEPT !.caller.imageSrc = v]
  ELSE [c EXCEPT !.state.imageSrc = v]

\* setZoom that always writes the widget's own cell
setZoom_internal(c, v) == [c EXCEPT !.state.zoom = v]

\* props.setZoom ?? zoomState[1]
setZoom(c, v) ==
  IF props.setZoom THEN [c EXCEPT !.caller.zoom = v]
  ELSE [c EXCEPT !.state.zoom = v]

\* props.setRotation ?? rotationState[1]
setRotation(c, v) ==
  IF props.setRotation THEN [c EXCEPT !.caller.rotation = v]
  ELSE [c EXCEPT !.state.rotation = v]

\* The updater (prev) => ({ ...prev, <fields> }) applied to prev
Spread(prev, fields) ==
  [k \in DOMAIN prev |-> IF k \in DOMAIN fields THEN fields[k] ELSE prev[k]]

\* props.setPan ?? panState[1], called with the updater that spreads prev
\* under the given fields
setPan(c, fields) ==
  IF props.setPan THEN [c EXCEPT !.caller.pan = Spread(c.caller.pan, fields)]
  ELSE [c EXCEPT !.state.pan = Spread(c.state.pan, fields)]

\* handleZoomChange without its floor
handleZoomChange_unclamped(c, value) == setZoom(c, value)

handleZoomChange(c, value) == setZoom(c, Max(MinZoom, value))

handleRotationChange(c, value) == setRotation(c, value)

\* handlePanXChange without the spread of prev
handlePanXChange_dropsY(c, value) ==
  setPan(c, [x |-> value, y |-> DefaultPan.y])

handlePanXChange(c, value) == setPan(c, [x |-> value])

handlePanYChange(c, value) == setPan(c, [y |-> value])

\* handleImageChange without its file check
handleImageChange_unguarded(rs, file) == Append(rs, file)

\* handleImageChange: a change event without a file returns; with a file it
\* starts a FileReader read (rs are the reads in flight)
handleImageChange(rs, file) ==
  IF file = NoFile THEN rs ELSE Append(rs, file)

\* reader.onload of handleImageChange, for a string data URL
readerOnload(c, dataUrl) ==
  handleRotationChange(
    handleZoomChange(
      handlePanXChange(setImageSrc(c, dataUrl), DefaultPan.x),
      DefaultZoom),
    DefaultRotation)

\* onDrag: pan + delta / zoom, both read from the last render
onDrag(c, mx, my) ==
  handlePanYChange(
    handlePanXChange(c, Plus(view.pan.x, Ratio(mx * 100, view.zoom))),
    Plus(view.pan.y, Ratio(my * 100, view.zoom)))

\* onPinch: zoom + scaleOffset, zoom read from the last render
onPinch(c, scaleOffset, pinchAngleOffset) ==
  handleZoomChange(c, view.zoom + scaleOffset)

----------------------------------------------------------------------------
(* Events *)

Fraction(n, d) == [num |-> n, den |-> d]

NoOutput ==
  [sink |-> "none", name |-> "", type |-> "", src |-> NoImage,
   width |-> 0, height |-> 0,
   translate |-> [x |-> Fraction(0, 1), y |-> Fraction(0, 1)],
   rotate |-> 0, scale |-> 0,
   sWidth |-> 0, sHeight |-> 0, dWidth |-> 0, dHeight |-> 0]

\* The <canvas> of a canvas cropper before anything was drawn: the element's
\* default bitmap of 300 x 150, blank.
BlankCanvas == [NoOutput EXCEPT !.sink = "canvas", !.width = 300, !.height = 150]

\* canvas.toDataURL("image/png"): a PNG data URL of the bitmap; of a bitmap
\* without pixels the string "data:,", which carries no type and no image.
toDataURL(width, height) ==
  IF width > 0 /\ height > 0 THEN "image/png" ELSE ""

Event(op, n, m, f) ==
  [op |-> op, n |-> n, m |-> m, f |-> f, context |-> TRUE, cap |-> InitialState,
   out |-> NoOutput]

\* A handler run that wrote the cells c: React shows it at the next render.
Wrote(c) ==
  /\ state' = c.state
  /\ caller' = c.caller
  /\ dirty' = TRUE

\* A user event, on the mounted widget: the run handles at most MaxEvents of them.
User ==
  /\ mounted
  /\ events < MaxEvents
  /\ events' = events + 1

\* A callback of the browser or of React: no user event.
Callback == UNCHANGED events

Without(seq, i) == [k \in 1..(Len(seq) - 1) |-> IF k < i THEN seq[k] ELSE seq[k + 1]]

----------------------------------------------------------------------------
(* ImageCropperWithDiv: export *)

\* the export size taken from the longer side
exportSize_longer(p, image) ==
  IF p.hasResolutionPx THEN p.resolutionPx ELSE Max(image.width, image.height)

\* resolutionPx ?? Math.min(width, height)
exportSize(p, image) ==
  IF p.hasResolutionPx THEN p.resolutionPx ELSE Min(image.width, image.height)

\* image.onload that reads the values in force when the load completes
drawToCanvasOnload_live(p, cap) ==
  LET now == Selected(props, state, caller)
      image == NaturalSize(now.imageSrc)
      size == exportSize(p, image)
      normalizedPan ==
        [x |-> Fraction(now.pan.x.num * size * now.zoom,
                        now.pan.x.den * Container.width * 100),
         y |-> Fraction(now.pan.y.num * size * now.zoom,
                        now.pan.y.den * Container.height * 100)]
  IN [sink |-> IF p.onCrop THEN "onCrop" ELSE "download",
      name |-> IF p.onCrop THEN "" ELSE DownloadName,
      type |-> toDataURL(size, size),
      src |-> now.imageSrc,
      width |-> size,
      height |-> size,
      translate |->
        [x |-> Fraction(size * normalizedPan.x.den + 2 * normalizedPan.x.num,
                        2 * normalizedPan.x.den),
         y |-> Fraction(size * normalizedPan.y.den + 2 * normalizedPan.y.num,
                        2 * normalizedPan.y.den)],
      rotate |-> now.rotation,
      scale |-> now.zoom,
      sWidth |-> image.width, sHeight |-> image.height,
      dWidth |-> image.width, dHeight |-> image.height]

\* image.onload of drawToCanvas, closed over the render that handled the submit:
\* the bitmap it draws and the sink it hands the PNG data URL to.
drawToCanvasOnload(p, cap) ==
  LET image == NaturalSize(cap.imageSrc)
      size == exportSize(p, image)
      sWidth == image.width
      sHeight == image.height
      dWidth == sWidth
      dHeight == sHeight
      \* pan * (size / container) * zoom
      normalizedPan ==
        [x |-> Fraction(cap.pan.x.num * size * cap.zoom,
                        cap.pan.x.den * Container.width * 100),
         y |-> Fraction(cap.pan.y.num * size * cap.zoom,
                        cap.pan.y.den * Container.height * 100)]
  IN [sink |-> IF p.onCrop THEN "onCrop" ELSE "download",
      name |-> IF p.onCrop THEN "" ELSE DownloadName,
      type |-> toDataURL(size, size),
      src |-> cap.imageSrc,
      width |-> size,
      height |-> size,
      \* size / 2 + normalizedPan
      translate |->
        [x |-> Fraction(size * normalizedPan.x.den + 2 * normalizedPan.x.num,
                        2 * normalizedPan.x.den),
         y |-> Fraction(size * normalizedPan.y.den + 2 * normalizedPan.y.num,
                        2 * normalizedPan.y.den)],
      rotate |-> cap.rotation,
      scale |-> cap.zoom,
      sWidth |-> sWidth, sHeight |-> sHeight,
      dWidth |-> dWidth, dHeight |-> dHeight]

\* drawToCanvas without its context check
drawToCanvas_unguarded(x, v, context) ==
  [exports |-> Append(x.exports, v), started |-> x.started + 1]

\* drawToCanvas up to image.src = imageSrc: without a 2D context it returns; with
\* one it starts a load whose onload closes over the values of this render
\* (x are the export loads in flight and the count of loads started)
drawToCanvas(x, v, context) ==
  IF context
  THEN [exports |-> Append(x.exports, v), started |-> x.started + 1]
  ELSE x

\* an output that calls back and downloads as well
deliver_both(k, out) ==
  [callbacks |-> k.callbacks + (IF out.sink = "onCrop" THEN 1 ELSE 0),
   downloads |-> k.downloads + 1,
   loaded |-> k.loaded + 1,
   started |-> k.started]

\* The sink counters after an output.
deliver(k, out) ==
  [callbacks |-> k.callbacks + (IF out.sink = "onCrop" THEN 1 ELSE 0),
   downloads |-> k.downloads + (IF out.sink = "download" THEN 1 ELSE 0),
   loaded |-> k.loaded + 1,
   started |-> k.started]

----------------------------------------------------------------------------
(* ImageCropperWithDiv: actions *)

\* What no handler of the div cropper touches.
DivCells == UNCHANGED <<component, props, refs, loads, canvas, mounted>>

DivFrame == DivCells /\ UNCHANGED <<imageDimensions, probes, fileInput>>

\* handleImageChange: the file input's change event, with or without a file
DivImageChange(file) ==
  /\ component = Div
  /\ User
  /\ reads' = handleImageChange(reads, file)
  /\ fileInput' = file
  /\ last' = Event("imageChange", 0, 0, file)
  /\ UNCHANGED <<caller, state, view, dirty, exports, sink>>
  /\ UNCHANGED <<imageDimensions, probes>>
  /\ DivCells

\* reader.onload: the read of reads[i] completes
DivReadLoaded(i) ==
  /\ component = Div
  /\ Callback
  /\ i \in 1..Len(reads)
  /\ Wrote(readerOnload(Cells, DataUrl(reads[i])))
  /\ reads' = Without(reads, i)
  /\ last' = Event("readLoaded", 0, 0, reads[i])
  /\ UNCHANGED <<view, exports, sink>>
  /\ DivFrame

DivZoomSlider(value) ==
  /\ component = Div
  /\ User
  /\ Wrote(handleZoomChange(Cells, value))
  /\ last' = Event("zoomSlider", value, 0, "")
  /\ UNCHANGED <<view, reads, exports, sink>>
  /\ DivFrame

DivRotationSlider(value) ==
  /\ component = Div
  /\ User
  /\ Wrote(handleRotationChange(Cells, value))
  /\ last' = Event("rotationSlider", value, 0, "")
  /\ UNCHANGED <<view, reads, exports, sink>>
  /\ DivFrame

DivPanXSlider(value) ==
  /\ component = Div
  /\ User
  /\ Wrote(handlePanXChange(Cells, Whole(value)))
  /\ last' = Event("panXSlider", value, 0, "")
  /\ UNCHANGED <<view, reads, exports, sink>>
  /\ DivFrame

DivPanYSlider(value) ==
  /\ component = Div
  /\ User
  /\ Wrote(handlePanYChange(Cells, Whole(value)))
  /\ last' = Event("panYSlider", value, 0, "")
  /\ UNCHANGED <<view, reads, exports, sink>>
  /\ DivFrame

\* useGesture onDrag with delta [mx, my]
DivDrag(mx, my) ==
  /\ component = Div
  /\ User
  /\ Wrote(onDrag(Cells, mx, my))
  /\ last' = Event("drag", mx, my, "")
  /\ UNCHANGED <<view, reads, exports, sink>>
  /\ DivFrame

\* useGesture onPinch with delta [scaleOffset, pinchAngleOffset]
DivPinch(scaleOffset, pinchAngleOffset) ==
  /\ component = Div
  /\ User
  /\ Wrote(onPinch(Cells, scaleOffset, pinchAngleOffset))
  /\ last' = Event("pinch", scaleOffset, pinchAngleOffset, "")
  /\ UNCHANGED <<view, reads, exports, sink>>
  /\ DivFrame

\* The effect on [imageSrc], run after a render: when imageSrc changed and is
\* not empty it starts a load that probes the image's dimensions (ps are the
\* probing loads in flight)
imageDimensionsEffect(ps, before, imageSrc) ==
  IF imageSrc # before /\ imageSrc # NoImage
  THEN [ps EXCEPT ![imageSrc] = @ + 1]
  ELSE ps

\* React renders: handlers and JSX now close over the current values, and the
\* effects whose dependencies changed run
DivRender ==
  /\ component = Div
  /\ Callback
  /\ dirty
  /\ view' = Selected(props, state, caller)
  /\ dirty' = FALSE
  /\ probes' = imageDimensionsEffect(probes, view.imageSrc, view'.imageSrc)
  /\ last' = Event("render", 0, 0, "")
  /\ UNCHANGED <<caller, state, reads, exports, sink, imageDimensions, fileInput>>
  /\ DivCells

\* image.onload of the effect's load of src: setImageDimensions
DivProbeLoaded(src) ==
  /\ component = Div
  /\ Callback
  /\ src # NoImage
  /\ probes[src] > 0
  /\ probes' = [probes EXCEPT ![src] = @ - 1]
  /\ imageDimensions' = NaturalSize(src)
  /\ dirty' = TRUE
  /\ last' = Event("probeLoaded", 0, 0, src)
  /\ UNCHANGED <<caller, state, view, reads, exports, sink, fileInput>>
  /\ DivCells

\* handleSubmit -> drawToCanvas; context is what canvas.getContext("2d") gave
DivSubmit(context) ==
  /\ component = Div
  /\ User
  /\ LET x == drawToCanvas([exports |-> exports, started |-> sink.started],
                           view, context)
     IN /\ exports' = x.exports
        /\ sink' = [sink EXCEPT !.started = x.started]
  /\ last' = [Event("submit", 0, 0, "") EXCEPT !.context = context]
  /\ UNCHANGED <<caller, state, view, dirty, reads>>
  /\ DivFrame

\* image.onload of the export exports[i]; an empty src never loads
DivExportLoaded(i) ==
  /\ component = Div
  /\ Callback
  /\ i \in 1..Len(exports)
  /\ exports[i].imageSrc # NoImage
  /\ LET out == drawToCanvasOnload(props, exports[i])
     IN /\ sink' = deliver(sink, out)
        /\ last' = [Event("exportLoaded", 0, 0, "") EXCEPT
                      !.out = out, !.cap = exports[i]]
  /\ exports' = Without(exports, i)
  /\ UNCHANGED <<caller, state, view, dirty, reads>>
  /\ DivFrame

NextDiv ==
  \/ \E file \in Files \cup {NoFile} : DivImageChange(file)
  \/ \E i \in 1..MaxEvents : DivReadLoaded(i)
  \/ \E value \in SliderZooms : DivZoomSlider(value)
  \/ \E value \in SliderRotations : DivRotationSlider(value)
  \/ \E value \in SliderPanXs : DivPanXSlider(value)
  \/ \E value \in SliderPanYs : DivPanYSlider(value)
  \/ \E d \in DragDeltas : DivDrag(d[1], d[2])
  \/ \E d \in PinchDeltas : DivPinch(d[1], d[2])
  \/ DivRender
  \/ \E context \in BOOLEAN : DivSubmit(context)
  \/ \E i \in 1..MaxEvents : DivExportLoaded(i)
  \/ \E src \in Sources : DivProbeLoaded(src)

----------------------------------------------------------------------------
(* ImageCropper, the canvas cropper: refs, and a redraw after every change *)

\* What a handler of a canvas cropper writes: the refs and the loads in flight.
Drawing == [refs |-> refs, loads |-> loads]

\* updateCanvas: without a 2D context it returns; with one it starts a load of
\* imageSrc.current, whose onload draws
Canvas_updateCanvas(k, context) ==
  IF context THEN [k EXCEPT !.loads[k.refs.imageSrc] = @ + 1] ELSE k

Canvas_handleZoomChange(k, context, value) ==
  Canvas_updateCanvas([k EXCEPT !.refs.zoom = Max(MinZoom, value)], context)

Canvas_handleRotationChange(k, context, value) ==
  Canvas_updateCanvas([k EXCEPT !.refs.rotation = value], context)

Canvas_handlePanXChange(k, context, value) ==
  Canvas_updateCanvas([k EXCEPT !.refs.pan.x = value], context)

Canvas_handlePanYChange(k, context, value) ==
  Canvas_updateCanvas([k EXCEPT !.refs.pan.y = value], context)

\* reader.onload of handleImageChange, for a string data URL
Canvas_readerOnload(k, context, dataUrl) ==
  Canvas_updateCanvas(
    Canvas_handleRotationChange(
      Canvas_handleZoomChange(
        Canvas_handlePanXChange([k EXCEPT !.refs.imageSrc = dataUrl],
                                context, InitialRefs.pan.x),
        context, DefaultZoom),
      context, DefaultRotation),
    context)

\* onDrag with offset [mx, my]
Canvas_onDrag(k, context, mx, my) ==
  Canvas_updateCanvas(
    Canvas_handlePanYChange(Canvas_handlePanXChange(k, context, mx), context, my),
    context)

\* onPinch with offset [scaleOffset, pinchAngleOffset]
Canvas_onPinch(k, context, scaleOffset, pinchAngleOffset) ==
  Canvas_updateCanvas(
    Canvas_handleRotationChange(
      Canvas_handleZoomChange(k, context, scaleOffset), context, pinchAngleOffset),
    context)

\* resolutionPx ?? canvasContainerRef.current?.getBoundingClientRect().width ?? 512
\* (container is FALSE when canvasContainerRef.current is null)
Canvas_size(p, container) ==
  IF p.hasResolutionPx THEN p.resolutionPx
  ELSE IF container THEN Container.width
  ELSE FallbackSize

\* image.onload of updateCanvas: the refs are read when the load completes
Canvas_onload(p, r, src, container) ==
  LET image == NaturalSize(src)
      size == Canvas_size(p, container)
      sWidth == image.width
      sHeight == image.height
      \* ratio = (sWidth > sHeight ? sHeight : sWidth) / size; d = s * zoom / ratio
      shorter == IF sWidth > sHeight THEN sHeight ELSE sWidth
  IN [sink |-> "canvas", name |-> "", type |-> "", src |-> src,
      width |-> size, height |-> size,
      translate |-> [x |-> Fraction(size + 2 * r.pan.x, 2),
                     y |-> Fraction(size + 2 * r.pan.y, 2)],
      rotate |-> r.rotation,
      scale |-> 100,
      sWidth |-> sWidth, sHeight |-> sHeight,
      dWidth |-> Fraction(sWidth * r.zoom * size, 100 * shorter),
      dHeight |-> Fraction(sHeight * r.zoom * size, 100 * shorter)]

\* handleSubmit of the canvas croppers: download what the canvas shows
Canvas_download(k) ==
  [k EXCEPT !.downloads = @ + 1]

\* What no handler of a canvas cropper touches.
CanvasCells ==
  UNCHANGED <<component, props, caller, state, view, dirty, exports,
              imageDimensions, probes>>

CanvasFrame == CanvasCells /\ UNCHANGED <<fileInput, mounted>>

Drew(k) ==
  /\ refs' = k.refs
  /\ loads' = k.loads

CanvasImageChange(file) ==
  /\ component = Canvas
  /\ User
  /\ reads' = handleImageChange(reads, file)
  /\ fileInput' = file
  /\ last' = Event("imageChange", 0, 0, file)
  /\ UNCHANGED <<refs, loads, canvas, sink, mounted>>
  /\ CanvasCells

\* reader.onload; context is FALSE when canvasRef.current is null or gives no
\* 2D context, and after an unmount the ref is null
CanvasReadLoaded(i, context) ==
  /\ component = Canvas
  /\ Callback
  /\ i \in 1..Len(reads)
  /\ context => mounted
  /\ Drew(Canvas_readerOnload(Drawing, context, DataUrl(reads[i])))
  /\ reads' = Without(reads, i)
  /\ last' = [Event("readLoaded", 0, 0, reads[i]) EXCEPT !.context = context]
  /\ UNCHANGED <<canvas, sink>>
  /\ CanvasFrame

CanvasZoomSlider(value, context) ==
  /\ component = Canvas
  /\ User
  /\ Drew(Canvas_handleZoomChange(Drawing, context, value))
  /\ last' = [Event("zoomSlider", value, 0, "") EXCEPT !.context = context]
  /\ UNCHANGED <<reads, canvas, sink>>
  /\ CanvasFrame

CanvasRotationSlider(value, context) ==
  /\ component = Canvas
  /\ User
  /\ Drew(Canvas_handleRotationChange(Drawing, context, value))
  /\ last' = [Event("rotationSlider", value, 0, "") EXCEPT !.context = context]
  /\ UNCHANGED <<reads, canvas, sink>>
  /\ CanvasFrame

CanvasPanXSlider(value, context) ==
  /\ component = Canvas
  /\ User
  /\ Drew(Canvas_handlePanXChange(Drawing, context, value))
  /\ last' = [Event("panXSlider", value, 0, "") EXCEPT !.context = context]
  /\ UNCHANGED <<reads, canvas, sink>>
  /\ CanvasFrame

CanvasPanYSlider(value, context) ==
  /\ component = Canvas
  /\ User
  /\ Drew(Canvas_handlePanYChange(Drawing, context, value))
  /\ last' = [Event("panYSlider", value, 0, "") EXCEPT !.context = context]
  /\ UNCHANGED <<reads, canvas, sink>>
  /\ CanvasFrame

CanvasDrag(mx, my, context) ==
  /\ component = Canvas
  /\ User
  /\ Drew(Canvas_onDrag(Drawing, context, mx, my))
  /\ last' = [Event("drag", mx, my, "") EXCEPT !.context = context]
  /\ UNCHANGED <<reads, canvas, sink>>
  /\ CanvasFrame

CanvasPinch(scaleOffset, pinchAngleOffset, context) ==
  /\ component = Canvas
  /\ User
  /\ Drew(Canvas_onPinch(Drawing, context, scaleOffset, pinchAngleOffset))
  /\ last' = [Event("pinch", scaleOffset, pinchAngleOffset, "") EXCEPT !.context = context]
  /\ UNCHANGED <<reads, canvas, sink>>
  /\ CanvasFrame

\* image.onload of one redraw load of src; an empty src never loads
CanvasLoaded(src) ==
  /\ component = Canvas
  /\ Callback
  /\ src # NoImage
  /\ loads[src] > 0
  /\ loads' = [loads EXCEPT ![src] = @ - 1]
  /\ canvas' = Canvas_onload(props, refs, src, mounted)
  /\ last' = Event("canvasLoaded", 0, 0, src)
  /\ UNCHANGED <<refs, reads, sink>>
  /\ CanvasFrame

CanvasSubmit(context) ==
  /\ component = Canvas
  /\ User
  /\ sink' = IF context THEN Canvas_download(sink) ELSE sink
  /\ last' = [Event("submit", 0, 0, "") EXCEPT
                !.context = context,
                !.out = IF context
                        THEN [canvas EXCEPT !.sink = "download", !.name = DownloadName,
                                            !.type = toDataURL(canvas.width,
                                                               canvas.height)]
                        ELSE NoOutput]
  /\ UNCHANGED <<refs, loads, reads, canvas>>
  /\ CanvasFrame

\* The App removes the cropper: React sets canvasRef.current and
\* canvasContainerRef.current to null; reads and loads in flight stay in flight
CanvasUnmount ==
  /\ component = Canvas
  /\ User
  /\ mounted' = FALSE
  /\ last' = Event("unmount", 0, 0, "")
  /\ UNCHANGED <<refs, loads, reads, canvas, sink, fileInput>>
  /\ CanvasCells

NextCanvas ==
  \/ CanvasUnmount
  \/ \E file \in Files \cup {NoFile} : CanvasImageChange(file)
  \/ \E i \in 1..MaxEvents, context \in BOOLEAN : CanvasReadLoaded(i, context)
  \/ \E value \in SliderZooms, context \in BOOLEAN : CanvasZoomSlider(value, context)
  \/ \E value \in SliderRotations, context \in BOOLEAN :
       CanvasRotationSlider(value, context)
  \/ \E value \in SliderPanXs, context \in BOOLEAN : CanvasPanXSlider(value, context)
  \/ \E value \in SliderPanYs, context \in BOOLEAN : CanvasPanYSlider(value, context)
  \/ \E d \in DragOffsets, context \in BOOLEAN : CanvasDrag(d[1], d[2], context)
  \/ \E d \in PinchOffsets, context \in BOOLEAN : CanvasPinch(d[1], d[2], context)
  \/ \E src \in Sources : CanvasLoaded(src)
  \/ \E context \in BOOLEAN : CanvasSubmit(context)

----------------------------------------------------------------------------
(* The first ImageCropper: refs, pan in hundredths of the drawn size *)

\* Limit zoom: the reset value of handleImageChange, in hundredths (0.5)
UploadZoom == 50

First_updateCanvas(k, context) ==
  IF context THEN [k EXCEPT !.loads[k.refs.imageSrc] = @ + 1] ELSE k

\* handleImageChange, before it looks at the file: reset zoom and rotation
First_handleImageChange(k) ==
  [k EXCEPT !.refs.zoom = UploadZoom, !.refs.rotation = DefaultRotation]

First_readerOnload(k, context, dataUrl) ==
  First_updateCanvas([k EXCEPT !.refs.imageSrc = dataUrl], context)

First_handleZoomChange(k, context, value) ==
  First_updateCanvas([k EXCEPT !.refs.zoom = value], context)

First_handleRotationChange(k, context, value) ==
  First_updateCanvas([k EXCEPT !.refs.rotation = value], context)

First_handlePanXChange(k, context, value) ==
  First_updateCanvas([k EXCEPT !.refs.pan.x = value], context)

First_handlePanYChange(k, context, value) ==
  First_updateCanvas([k EXCEPT !.refs.pan.y = value], context)

\* trackpadGestureHandler: zoom += -deltaY / 100, floored, when ctrl is held
First_trackpadGestureHandler(k, context, ctrlKey, deltaY) ==
  IF ctrlKey
  THEN First_updateCanvas(
         [k EXCEPT !.refs.zoom = Max(MinZoom, k.refs.zoom + (-deltaY))], context)
  ELSE k

\* onDrag with delta [mx, my]: pan += delta / 100
First_onDrag(k, context, mx, my) ==
  First_updateCanvas(
    [k EXCEPT !.refs.pan = [x |-> k.refs.pan.x + mx, y |-> k.refs.pan.y + my]],
    context)

\* onPinch with offset [scaleOffset, pinchAngleOffset]
First_onPinch(k, context, scaleOffset, pinchAngleOffset) ==
  First_updateCanvas(
    [k EXCEPT !.refs.zoom = scaleOffset, !.refs.rotation = pinchAngleOffset],
    context)

\* image.onload of updateCanvas
First_onload(r, src) ==
  LET image == NaturalSize(src)
      size == Min(image.width, image.height)
      sWidth == image.width
      sHeight == image.height
      dWidth == Fraction(sWidth * r.zoom, 100)
      dHeight == Fraction(sHeight * r.zoom, 100)
  IN [sink |-> "canvas", name |-> "", type |-> "", src |-> src,
      width |-> size, height |-> size,
      \* size / 2 + (pan * d) / 2
      translate |->
        [x |-> Fraction(size * 100 * dWidth.den + r.pan.x * dWidth.num,
                        2 * 100 * dWidth.den),
         y |-> Fraction(size * 100 * dHeight.den + r.pan.y * dHeight.num,
                        2 * 100 * dHeight.den)],
      rotate |-> r.rotation,
      scale |-> 100,
      sWidth |-> sWidth, sHeight |-> sHeight,
      dWidth |-> dWidth, dHeight |-> dHeight]

FirstImageChange(file) ==
  /\ component = First
  /\ User
  /\ Drew(First_handleImageChange(Drawing))
  /\ reads' = handleImageChange(reads, file)
  /\ fileInput' = file
  /\ last' = Event("imageChange", 0, 0, file)
  /\ UNCHANGED <<canvas, sink, mounted>>
  /\ CanvasCells

FirstReadLoaded(i, context) ==
  /\ component = First
  /\ Callback
  /\ i \in 1..Len(reads)
  /\ Drew(First_readerOnload(Drawing, context, DataUrl(reads[i])))
  /\ reads' = Without(reads, i)
  /\ last' = [Event("readLoaded", 0, 0, reads[i]) EXCEPT !.context = context]
  /\ UNCHANGED <<canvas, sink>>
  /\ CanvasFrame

FirstZoomSlider(value, context) ==
  /\ component = First
  /\ User
  /\ Drew(First_handleZoomChange(Drawing, context, value))
  /\ last' = [Event("zoomSlider", value, 0, "") EXCEPT !.context = context]
  /\ UNCHANGED <<reads, canvas, sink>>
  /\ CanvasFrame

FirstRotationSlider(value, context) ==
  /\ component = First
  /\ User
  /\ Drew(First_handleRotationChange(Drawing, context, value))
  /\ last' = [Event("rotationSlider", value, 0, "") EXCEPT !.context = context]
  /\ UNCHANGED <<reads, canvas, sink>>
  /\ CanvasFrame

FirstPanXSlider(value, context) ==
  /\ component = First
  /\ User
  /\ Drew(First_handlePanXChange(Drawing, context, value))
  /\ last' = [Event("panXSlider", value, 0, "") EXCEPT !.context = context]
  /\ UNCHANGED <<reads, canvas, sink>>
  /\ CanvasFrame

FirstPanYSlider(value, context) ==
  /\ component = First
  /\ User
  /\ Drew(First_handlePanYChange(Drawing, context, value))
  /\ last' = [Event("panYSlider", value, 0, "") EXCEPT !.context = context]
  /\ UNCHANGED <<reads, canvas, sink>>
  /\ CanvasFrame

\* a wheel event on the window
FirstWheel(ctrlKey, deltaY, context) ==
  /\ component = First
  /\ User
  /\ Drew(First_trackpadGestureHandler(Drawing, context, ctrlKey, deltaY))
  /\ last' = [Event("wheel", deltaY, IF ctrlKey THEN 1 ELSE 0, "") EXCEPT
                !.context = context]
  /\ UNCHANGED <<reads, canvas, sink>>
  /\ CanvasFrame

FirstDrag(mx, my, context) ==
  /\ component = First
  /\ User
  /\ Drew(First_onDrag(Drawing, context, mx, my))
  /\ last' = [Event("drag", mx, my, "") EXCEPT !.context = context]
  /\ UNCHANGED <<reads, canvas, sink>>
  /\ CanvasFrame

FirstPinch(scaleOffset, pinchAngleOffset, context) ==
  /\ component = First
  /\ User
  /\ Drew(First_onPinch(Drawing, context, scaleOffset, pinchAngleOffset))
  /\ last' = [Event("pinch", scaleOffset, pinchAngleOffset, "") EXCEPT !.context = context]
  /\ UNCHANGED <<reads, canvas, sink>>
  /\ CanvasFrame

FirstLoaded(src) ==
  /\ component = First
  /\ Callback
  /\ src # NoImage
  /\ loads[src] > 0
  /\ loads' = [loads EXCEPT ![src] = @ - 1]
  /\ canvas' = First_onload(refs, src)
  /\ last' = Event("canvasLoaded", 0, 0, src)
  /\ UNCHANGED <<refs, reads, sink>>
  /\ CanvasFrame

FirstSubmit(context) ==
  /\ component = First
  /\ User
  /\ sink' = IF context THEN Canvas_download(sink) ELSE sink
  /\ last' = [Event("submit", 0, 0, "") EXCEPT
                !.context = context,
                !.out = IF context
                        THEN [canvas EXCEPT !.sink = "download", !.name = DownloadName,
                                            !.type = toDataURL(canvas.width,
                                                               canvas.height)]
                        ELSE NoOutput]
  /\ UNCHANGED <<refs, loads, reads, canvas>>
  /\ CanvasFrame

NextFirst ==
  \/ \E file \in Files \cup {NoFile} : FirstImageChange(file)
  \/ \E i \in 1..MaxEvents, context \in BOOLEAN : FirstReadLoaded(i, context)
  \/ \E value \in SliderZooms, context \in BOOLEAN : FirstZoomSlider(value, context)
  \/ \E value \in SliderRotations, context \in BOOLEAN :
       FirstRotationSlider(value, context)
  \/ \E value \in SliderPanXs, context \in BOOLEAN : FirstPanXSlider(value, context)
  \/ \E value \in SliderPanYs, context \in BOOLEAN : FirstPanYSlider(value, context)
  \/ \E ctrlKey \in BOOLEAN, deltaY \in WheelDeltas, context \in BOOLEAN :
       FirstWheel(ctrlKey, deltaY, context)
  \/ \E d \in DragDeltas, context \in BOOLEAN : FirstDrag(d[1], d[2], context)
  \/ \E d \in PinchOffsets, context \in BOOLEAN : FirstPinch(d[1], d[2], context)
  \/ \E src \in Sources : FirstLoaded(src)
  \/ \E context \in BOOLEAN : FirstSubmit(context)

----------------------------------------------------------------------------
(* Mounting *)

Props(controlled, hasResolutionPx, resolutionPx, onCrop) ==
  [imageSrc |-> "imageSrc" \in controlled, setImageSrc |-> "imageSrc" \in controlled,
   zoom |-> "zoom" \in controlled, setZoom |-> "zoom" \in controlled,
   rotation |-> "rotation" \in controlled, setRotation |-> "rotation" \in controlled,
   pan |-> "pan" \in controlled, setPan |-> "pan" \in controlled,
   hasResolutionPx |-> hasResolutionPx, resolutionPx |-> resolutionPx,
   onCrop |-> onCrop]

NoProps == Props({}, FALSE, 0, FALSE)

Controls == {{}, {"imageSrc", "zoom", "rotation", "pan"}, {"zoom"}, {"pan"}}

DivProps ==
  {Props(c, FALSE, 0, cb) : c \in Controls, cb \in BOOLEAN}
  \cup {Props({}, TRUE, r, cb) : r \in Resolutions, cb \in BOOLEAN}

CanvasProps == {NoProps, Props({}, TRUE, 20, FALSE)}

\* What the caller holds when it mounts the widget.
CallerStarts(p) ==
  IF p.zoom /\ ~p.pan THEN {InitialState, [InitialState EXCEPT !.zoom = 10]}
  ELSE {InitialState}

Init ==
  /\ component \in {Div, Canvas, First}
  /\ props \in CASE component = Div -> DivProps
                 [] component = Canvas -> CanvasProps
                 [] OTHER -> {NoProps}
  /\ caller \in CallerStarts(props)
  /\ state = InitialState
  /\ view = Selected(props, state, caller)
  /\ dirty = FALSE
  /\ reads = <<>>
  /\ exports = <<>>
  /\ sink = [callbacks |-> 0, downloads |-> 0, loaded |-> 0, started |-> 0]
  /\ refs = InitialRefs
  /\ loads = [src \in Sources |-> 0]
  /\ canvas = IF component = Div THEN NoOutput ELSE BlankCanvas
  /\ last = Event("mount", 0, 0, "")
  /\ events = 0
  /\ imageDimensions = NoDimensions
  /\ probes = [src \in Sources |-> 0]
  /\ fileInput = NoFile
  /\ mounted = TRUE

Next == NextDiv \/ NextCanvas \/ NextFirst

Spec == Init /\ [][Next]_vars

----------------------------------------------------------------------------
(* Properties *)

\* The values in force: the div cropper's selected cells, the canvas croppers' refs.
Current == IF component = Div THEN Selected(props, state, caller) ELSE refs

Uncontrolled(p) ==
  ~(p.imageSrc \/ p.setImageSrc \/ p.zoom \/ p.setZoom
    \/ p.rotation \/ p.setRotation \/ p.pan \/ p.setPan)

\* C1: in the div cropper mounted without zoom/setZoom props, zoom is at least
\* 0.25 in every reachable state: the state cell, the value the last render
\* bound, and the zoom every export in flight closed over.
C1_ZoomFloor ==
  (component = Div /\ ~props.zoom /\ ~props.setZoom) =>
    /\ state.zoom >= MinZoom
    /\ view.zoom >= MinZoom
    /\ \A i \in 1..Len(exports) : exports[i].zoom >= MinZoom

\* C1 witness: a pinch whose delta would take zoom under the floor has been handled.
C1_Witness ==
  /\ component = Div
  /\ Uncontrolled(props)
  /\ last.op = "pinch"
  /\ view.zoom + last.n < MinZoom
  /\ state.zoom = MinZoom

\* C2 as claimed: after a read completes (reader.onload with a string data URL),
\* zoom is 1, rotation is 0 and pan is (0, 0), in the div cropper and in the
\* canvas cropper.
C2_UploadResetsAll ==
  (component \in {Div, Canvas} /\ last.op = "readLoaded") =>
    /\ Current.zoom = DefaultZoom
    /\ Current.rotation = DefaultRotation
    /\ Current.pan = IF component = Div THEN DefaultPan ELSE InitialRefs.pan

\* C3: every completed export load gave exactly one output through exactly one
\* sink: the callback when onCrop was supplied (and then no download), the
\* download of cropped-image.png otherwise (and then no callback); every load
\* started is in flight or completed once.
C3_OneSink ==
  component = Div =>
    /\ sink.callbacks + sink.downloads = sink.loaded
    /\ sink.loaded + Len(exports) = sink.started
    /\ props.onCrop => sink.downloads = 0
    /\ ~props.onCrop => sink.callbacks = 0
    /\ last.op = "exportLoaded" =>
         /\ last.out.type = toDataURL(last.out.width, last.out.height)
         /\ last.out.width > 0 => last.out.type = "image/png"
         /\ last.out.sink = IF props.onCrop THEN "onCrop" ELSE "download"
         /\ ~props.onCrop => last.out.name = DownloadName

\* C3 witness: two exports have completed and each went to the callback.
C3_Witness ==
  /\ component = Div
  /\ props.onCrop
  /\ last.op = "exportLoaded"
  /\ sink.loaded = 2
  /\ sink.callbacks = 2

\* C4: the bitmap an export of the div cropper emits is square; its side is
\* resolutionPx when that prop is supplied and min(natural width, natural
\* height) of the image otherwise, whatever zoom, rotation and pan are.
C4_ExportSize ==
  (component = Div /\ last.op = "exportLoaded") =>
    /\ last.out.width = last.out.height
    /\ last.out.width =
         IF props.hasResolutionPx THEN props.resolutionPx
         ELSE Min(NaturalSize(last.cap.imageSrc).width,
                  NaturalSize(last.cap.imageSrc).height)

\* C4 witness: an export without resolutionPx, taken with a zoom other than 1.
C4_Witness ==
  /\ component = Div
  /\ last.op = "exportLoaded"
  /\ ~props.hasResolutionPx
  /\ last.cap.zoom # DefaultZoom

\* C5: in the div cropper a Rotation, Pan X or Pan Y slider change to v sets
\* exactly that parameter to v and leaves the other parameters and the image
\* as they were.
C5_SlidersDirect ==
  [][component = Div =>
       LET before == Selected(props, state, caller)
           after == Selected(props', state', caller')
       IN /\ last'.op = "rotationSlider" =>
               after = [before EXCEPT !.rotation = last'.n]
          /\ last'.op = "panXSlider" =>
               after = [before EXCEPT !.pan = [x |-> Whole(last'.n), y |-> before.pan.y]]
          /\ last'.op = "panYSlider" =>
               after = [before EXCEPT !.pan = [x |-> before.pan.x, y |-> Whole(last'.n)]]
    ]_vars

\* C5 witness: a Pan X slider change handled when pan.y and zoom were not at
\* their defaults.
C5_Witness ==
  /\ component = Div
  /\ last.op = "panXSlider"
  /\ Current.pan.x = Whole(last.n)
  /\ Current.pan.y # DefaultPan.y
  /\ Current.zoom # DefaultZoom

\* C6: in the div cropper and the canvas cropper a change event of the file
\* input that carries no file starts no read and leaves image source, zoom,
\* rotation and pan as they were.
C6_NoFileNoEffect ==
  [][(component \in {Div, Canvas} /\ last'.op = "imageChange" /\ last'.f = NoFile) =>
       /\ reads' = reads
       /\ state' = state
       /\ caller' = caller
       /\ view' = view
       /\ refs' = refs
       /\ loads' = loads
    ]_vars

\* C6 witness: a change event without a file, handled after the transform had
\* been changed and while a read was in flight.
C6_Witness ==
  /\ component = Div
  /\ last.op = "imageChange"
  /\ last.f = NoFile
  /\ state.zoom # DefaultZoom
  /\ Len(reads) = 1

\* C7: without a 2D context a submit of the div cropper starts no image load,
\* calls no callback, downloads nothing and leaves image source, zoom, rotation
\* and pan as they were; in the canvas cropper a redraw without a context
\* starts no load and draws nothing, and a submit downloads nothing.
C7_NoContextNoEffect ==
  [][/\ (component = Div /\ last'.op = "submit" /\ ~last'.context) =>
          /\ exports' = exports
          /\ sink' = sink
          /\ state' = state
          /\ caller' = caller
          /\ view' = view
     /\ (component = Canvas /\ ~last'.context) =>
          /\ loads' = loads
          /\ canvas' = canvas
          /\ sink' = sink
          /\ Canvas_updateCanvas([refs |-> refs', loads |-> loads'], FALSE)
               = [refs |-> refs', loads |-> loads']
          /\ last'.op = "submit" => refs' = refs
    ]_vars

\* C7 witness: a submit handled without a context while an image was shown.
C7_Witness ==
  /\ component = Div
  /\ last.op = "submit"
  /\ ~last.context
  /\ view.imageSrc # NoImage
  /\ exports = <<>>

\* C8: for each parameter whose value prop and setter prop are both supplied,
\* the widget's own state cell keeps its initial value, every change a slider,
\* a gesture or an upload makes reaches the caller's cell (zoom floored at
\* 0.25), and what a render binds is the caller's value.
C8_Controlled ==
  [][component = Div =>
       /\ (props.zoom /\ props.setZoom) =>
            /\ state'.zoom = InitialState.zoom
            /\ ~dirty' => view'.zoom = caller'.zoom
            /\ last'.op = "zoomSlider" => caller'.zoom = Max(MinZoom, last'.n)
            /\ last'.op = "pinch" => caller'.zoom = Max(MinZoom, view.zoom + last'.n)
            /\ last'.op = "readLoaded" => caller'.zoom = DefaultZoom
            /\ caller'.zoom # caller.zoom => caller'.zoom >= MinZoom
       /\ (props.rotation /\ props.setRotation) =>
            /\ state'.rotation = InitialState.rotation
            /\ ~dirty' => view'.rotation = caller'.rotation
            /\ last'.op = "rotationSlider" => caller'.rotation = last'.n
            /\ last'.op = "readLoaded" => caller'.rotation = DefaultRotation
       /\ (props.pan /\ props.setPan) =>
            /\ state'.pan = InitialState.pan
            /\ ~dirty' => view'.pan = caller'.pan
            /\ last'.op = "panXSlider" => caller'.pan.x = Whole(last'.n)
            /\ last'.op = "panYSlider" => caller'.pan.y = Whole(last'.n)
            /\ last'.op = "drag" =>
                 caller'.pan =
                   [x |-> Plus(view.pan.x, Ratio(last'.n * 100, view.zoom)),
                    y |-> Plus(view.pan.y, Ratio(last'.m * 100, view.zoom))]
            /\ last'.op = "readLoaded" => caller'.pan.x = DefaultPan.x
       /\ (props.imageSrc /\ props.setImageSrc) =>
            /\ state'.imageSrc = InitialState.imageSrc
            /\ ~dirty' => view'.imageSrc = caller'.imageSrc
            /\ last'.op = "readLoaded" => caller'.imageSrc = DataUrl(last'.f)
       /\ (last'.op = "submit" /\ last'.context) =>
            exports' = Append(exports, view)
    ]_vars

\* C8 witness: with zoom and setZoom supplied, a pinch under the floor has
\* been handled and rendered: the caller holds 0.25, the widget's own cell
\* still holds 1.
C8_Witness ==
  /\ component = Div
  /\ props.zoom /\ props.setZoom
  /\ caller.zoom = MinZoom
  /\ view.zoom = MinZoom
  /\ state.zoom = DefaultZoom
  /\ ~dirty

\* The part of the image an exported bitmap shows, in image pixels: how many
\* image pixels its side spans, where its centre lies from the image's centre
\* (in the rotated frame), and the rotation.
VisibleRegion(out) ==
  [extent |-> Fraction(out.width * out.sWidth * 100, out.dWidth * out.scale),
   centreX |-> Fraction((out.width * out.translate.x.den - 2 * out.translate.x.num)
                          * 100 * out.sWidth,
                        2 * out.translate.x.den * out.scale * out.dWidth),
   centreY |-> Fraction((out.height * out.translate.y.den - 2 * out.translate.y.num)
                          * 100 * out.sHeight,
                        2 * out.translate.y.den * out.scale * out.dHeight),
   rotate |-> out.rotate]

SameFraction(a, b) == a.num * b.den = b.num * a.den

SameRegion(r, q) ==
  /\ SameFraction(r.extent, q.extent)
  /\ SameFraction(r.centreX, q.centreX)
  /\ SameFraction(r.centreY, q.centreY)
  /\ r.rotate = q.rotate

\* C9 as claimed: an export with a positive resolutionPx supplied shows the same
\* part of the image as the export of the same image, zoom, rotation and pan
\* with resolutionPx omitted.
C9_ResolutionKeepsRegion ==
  (component = Div /\ last.op = "exportLoaded"
     /\ props.hasResolutionPx /\ props.resolutionPx > 0) =>
    SameRegion(
      VisibleRegion(last.out),
      VisibleRegion(
        drawToCanvasOnload([props EXCEPT !.hasResolutionPx = FALSE], last.cap)))

\* C10 as claimed: in the first canvas cropper zoom is at least 0.25 in every
\* reachable state.
C10_FirstZoomFloor ==
  component = First => refs.zoom >= MinZoom

\* C11: in the first canvas cropper a change event of the file input that carries
\* no file leaves zoom, rotation, pan and image source as they were and starts no
\* read and no redraw.
C11_FirstNoFileNoEffect ==
  [][(component = First /\ events' = events + 1
      /\ last'.op = "imageChange" /\ last'.f = NoFile)
     => /\ refs' = refs
        /\ loads' = loads
        /\ reads' = reads
        /\ canvas' = canvas]_vars

\* C12: in the div cropper every drag event with delta (mx, my), handled at a zoom
\* z that has not changed since the last render, moves the pan in force by
\* (mx / z, my / z) on both axes, so that no delta of a sequence of drags is lost,
\* whether or not the component rendered between them.
C12_DragAddsDelta ==
  [][(component = Div /\ events' = events + 1 /\ last'.op = "drag"
      /\ Selected(props, state, caller).zoom = view.zoom)
     => LET before == Selected(props, state, caller)
            after == Selected(props, state', caller')
        IN after.pan =
             [x |-> Plus(before.pan.x, Ratio(last'.n * 100, before.zoom)),
              y |-> Plus(before.pan.y, Ratio(last'.m * 100, before.zoom))]]_vars

\* C13 as claimed: in the div cropper a pinch event with scale delta d sets the
\* zoom in force to max(0.25, zoom + d), zoom being the zoom in force when the
\* pinch is handled, and leaves rotation, pan and image source as they were,
\* whatever the pinch angle delta is.
C13_PinchSetsZoomOnly ==
  [][(component = Div /\ events' = events + 1 /\ last'.op = "pinch")
     => LET before == Selected(props, state, caller)
            after == Selected(props, state', caller')
        IN /\ after.zoom = Max(MinZoom, before.zoom + last'.n)
           /\ after.rotation = before.rotation
           /\ after.pan = before.pan
           /\ after.imageSrc = before.imageSrc
           /\ UNCHANGED <<reads, exports, sink>>]_vars

C15_RedrawSettles ==
  [][(component \in {Canvas, First} /\ last'.op = "canvasLoaded" /\ loads' # loads
      /\ \A src \in Sources \ {NoImage} : loads'[src] = 0)
     => /\ canvas' = IF component = Canvas
                     THEN Canvas_onload(props, refs', canvas'.src, mounted)
                     ELSE First_onload(refs', canvas'.src)
        /\ (canvas.src = refs.imageSrc => canvas'.src = refs'.imageSrc)]_vars

\* C16: in the div cropper, when file A is selected and then file B before the
\* read of A has completed, then once both reads have completed the image source
\* in force is that of B, the file selected last (the one the file input holds),
\* whichever read completed first.
C16_LastSelectedWins ==
  (component = Div /\ reads = <<>> /\ fileInput # NoFile)
  => Selected(props, state, caller).imageSrc = DataUrl(fileInput)

----------------------------------------------------------------------------
(* ImageCropperWithDiv: the preview, and the export of one rendering *)

\* rotate(deg) of a CSS transform applied to the vector p, for quarter turns
Rotate(p, deg) ==
  LET Minus(a) == [num |-> -a.num, den |-> a.den]
  IN CASE deg % 360 = 0 -> p
       [] deg % 360 = 90 -> [x |-> Minus(p.y), y |-> p.x]
       [] deg % 360 = 180 -> [x |-> Minus(p.x), y |-> Minus(p.y)]
       [] OTHER -> [x |-> p.y, y |-> Minus(p.x)]

\* transform: scale(zoom) rotate(rotation) translate(pan) of the preview, about
\* the centre of the container: where it puts the centre of the image
previewTransform(v) ==
  LET turned == Rotate(v.pan, v.rotation)
  IN [x |-> Fraction(v.zoom * turned.x.num, 100 * turned.x.den),
      y |-> Fraction(v.zoom * turned.y.num, 100 * turned.y.den)]

\* What the sliders and gestures can have left rendered when a submit comes.
ExportZooms == {MinZoom, 50, DefaultZoom, 150}
ExportRotations == {-180, -90, 0, 90, 180}
ExportPans ==
  {[x |-> Whole(px), y |-> Whole(py)] : px \in {-20, 0, 20}, py \in {-20, 0, 20}}
ExportProps ==
  {Props({}, FALSE, 0, cb) : cb \in BOOLEAN}
  \cup {Props({}, TRUE, r, FALSE) : r \in Resolutions}

InitExport ==
  /\ component = Div
  /\ props \in ExportProps
  /\ caller = InitialState
  /\ state \in [imageSrc : {DataUrl(f) : f \in Files}, zoom : ExportZooms,
                rotation : ExportRotations, pan : ExportPans]
  /\ view = Selected(props, state, caller)
  /\ dirty = FALSE
  /\ reads = <<>>
  /\ exports = <<>>
  /\ sink = [callbacks |-> 0, downloads |-> 0, loaded |-> 0, started |-> 0]
  /\ refs = InitialRefs
  /\ loads = [src \in Sources |-> 0]
  /\ canvas = NoOutput
  /\ last = Event("mount", 0, 0, "")
  /\ events = 0
  /\ imageDimensions = NaturalSize(state.imageSrc)
  /\ probes = [src \in Sources |-> 0]
  /\ fileInput = CHOOSE f \in Files : DataUrl(f) = state.imageSrc
  /\ mounted = TRUE

NextExport ==
  \/ \E context \in BOOLEAN : DivSubmit(context)
  \/ \E i \in 1..MaxEvents : DivExportLoaded(i)

SpecExport == InitExport /\ [][NextExport]_vars

\* Where the export puts the centre of the image, from the centre of the bitmap:
\* drawImage centres the image on the origin that translate moved.
ExportCentre(out) ==
  [x |-> Fraction(2 * out.translate.x.num - out.width * out.translate.x.den,
                  2 * out.translate.x.den),
   y |-> Fraction(2 * out.translate.y.num - out.height * out.translate.y.den,
                  2 * out.translate.y.den)]

\* C17: the export of the div cropper shows what its preview shows: for every
\* zoom, pan and quarter-turn rotation the displacement of the image centre from
\* the centre of the exported bitmap equals the displacement of the image centre
\* from the container centre in the preview, times size / container size, on
\* both axes.
C17_ExportMatchesPreview ==
  (component = Div /\ last.op = "exportLoaded")
  => LET shown == previewTransform(last.cap)
         drawn == ExportCentre(last.out)
     IN /\ SameFraction(drawn.x, Fraction(shown.x.num * last.out.width,
                                          shown.x.den * Container.width))
        /\ SameFraction(drawn.y, Fraction(shown.y.num * last.out.height,
                                          shown.y.den * Container.height))

\* C18: in the div cropper, once every dimension-probing load started by a change
\* of the image source has completed and the component has rendered, the stored
\* imageDimensions are the natural dimensions of the image source shown, in
\* whatever order the loads of successive image sources completed.
C18_DimensionsOfShownImage ==
  (component = Div /\ ~dirty /\ view.imageSrc # NoImage
   /\ \A src \in Sources : probes[src] = 0)
  => imageDimensions = NaturalSize(view.imageSrc)

====
